---- MODULE Spec2Model ----
(***************************************************************************)
(* Model of app.py, a Streamlit dashboard over the obesity survey CSV.     *)
(* One session: the script is run top to bottom at session start and again *)
(* after every widget interaction.  A run reads the CSV, derives AgeBand,  *)
(* emits five sidebar widgets, filters the table and emits one bar chart.  *)
(* An exception at any line stops the run at that line; the elements       *)
(* emitted before it stay on the page, followed by the exception box.      *)
(***************************************************************************)
EXTENDS Integers, Sequences, FiniteSets, TLC

VARIABLES
    csv,        \* the file ObesityDataSet_raw_and_data_sinthetic.csv on disk
    ws,         \* widget values, kept by the framework across re-runs
    df,         \* the table of the last run (app.py:5-7)
    filtered,   \* the filtered view of the last run (app.py:17-22)
    fig1,       \* the figure of the last run (app.py:25)
    out,        \* the elements the last run put on the page, in order
    status,     \* "ok" or "error": how the last run ended
    first,      \* history: the result of the session's first run
    narrowed    \* history: some run so far has filtered rows away

vars == <<csv, ws, df, filtered, fig1, out, status, first, narrowed>>

\* ------------------------------------------------------------------ bounds

\* Largest number of data rows of a generated CSV file.
MaxRows == 2

\* ------------------------------------------------------------ the CSV file

Columns ==
    {"Gender", "Age", "FAVC", "FAF", "CALC",
     "family_history_with_overweight", "NObeyesdad"}

Row(g, a, fv, ff, c, fh, n) ==
    [Gender |-> g, Age |-> a, FAVC |-> fv, FAF |-> ff, CALC |-> c,
     family_history_with_overweight |-> fh, NObeyesdad |-> n]

\* The three respondents of the end-to-end scenario, in file order.
ExampleTable ==
    << Row("Male",   25, "no",  1, "Sometimes",  "no",  "Normal"),
       Row("Female", 19, "yes", 0, "no",         "yes", "Obesity"),
       Row("Male",   42, "no",  3, "Frequently", "no",  "Overweight") >>

\* A table in which two respondents agree in every column.
RepeatTable == << ExampleTable[1], ExampleTable[2], ExampleTable[1] >>

\* Respondents the generated tables are built from.
RowPool ==
    { ExampleTable[1], ExampleTable[2],
      Row("Female", 30, "no", 2, "Sometimes", "yes", "Normal") }

\* Ages around every bucket edge.
EdgeAges == <<-1, 0, 1, 19, 20, 21, 25, 26, 30, 31, 40, 41, 99, 100, 101>>

\* One respondent per edge age, alike in every other column.
EdgeTable ==
    [i \in 1..Len(EdgeAges) |->
        Row("Male", EdgeAges[i], "no", 1, "no", "yes", "Normal")]

SeqsOfLen(S, n) == [1..n -> S]

Tables ==
    UNION { SeqsOfLen(RowPool, n) : n \in 1..MaxRows }
      \cup { ExampleTable, RepeatTable, EdgeTable }

\* A file on disk: it may be absent, it may fail to parse, and its header
\* may lack columns; every data row has exactly the header's columns.
GoodFile(t) ==
    [exists |-> TRUE, parses |-> TRUE, header |-> Columns, rows |-> t]

MissingFile ==
    [exists |-> FALSE, parses |-> FALSE, header |-> {}, rows |-> <<>>]

MalformedFile ==
    [exists |-> TRUE, parses |-> FALSE, header |-> {}, rows |-> <<>>]

DropColumn(t, c) ==
    [exists |-> TRUE, parses |-> TRUE, header |-> Columns \ {c},
     rows |-> [i \in 1..Len(t) |-> [k \in Columns \ {c} |-> t[i][k]]]]

CsvFiles ==
    { GoodFile(t) : t \in Tables }
      \cup { MissingFile, MalformedFile }
      \cup { DropColumn(ExampleTable, c) : c \in Columns }

\* -------------------------------------------------------------- data frames

\* A data frame: its column names, its index labels and its rows.
NoFrame == [columns |-> {}, index |-> <<>>, rows |-> <<>>]

Range(s) == { s[i] : i \in 1..Len(s) }

NaN == "NaN"

\* pd.read_csv: the rows under a RangeIndex starting at 0.
read_csv(file) ==
    [columns |-> file.header,
     index   |-> [i \in 1..Len(file.rows) |-> i - 1],
     rows    |-> file.rows]

read_csv_raises(file) == ~file.exists \/ ~file.parses

\* ------------------------------------------------------------------ pd.cut

bins == <<0, 20, 25, 30, 40, 100>>

labels == <<"<20", "20-25", "26-30", "31-40", "41+">>

\* bins.searchsorted(x, side="left"): how many edges lie strictly below x.
searchsorted_left(a, x) == Cardinality({ i \in 1..Len(a) : a[i] < x })

\* bins.searchsorted(x, side="right"): how many edges lie at or below x.
searchsorted_right(a, x) == Cardinality({ i \in 1..Len(a) : a[i] <= x })

\* pd.cut with right=False: buckets closed on the left.
cut_left_closed(x) ==
    LET ids == searchsorted_right(bins, x)
    IN  IF ids = 0 \/ ids = Len(bins) THEN NaN ELSE labels[ids]

\* pd.cut(x, bins, labels) with the default right=True.
cut(x) ==
    LET ids == searchsorted_left(bins, x)
    IN  IF ids = 0 \/ ids = Len(bins) THEN NaN ELSE labels[ids]

\* df["AgeBand"] = pd.cut(df["Age"], ...)
AddAgeBand(frame) ==
    [columns |-> frame.columns \cup {"AgeBand"},
     index   |-> frame.index,
     rows    |-> [i \in 1..Len(frame.rows) |->
                    frame.rows[i] @@ ("AgeBand" :> cut(frame.rows[i].Age))]]

\* ----------------------------------------------------------------- widgets

Column(frame, c) == [i \in 1..Len(frame.rows) |-> frame.rows[i][c]]

\* Series.unique(): the distinct values in order of first appearance.
RECURSIVE unique(_)
unique(s) ==
    IF s = <<>> THEN <<>>
    ELSE LET u == unique(SubSeq(s, 1, Len(s) - 1))
             x == s[Len(s)]
         IN  IF x \in Range(u) THEN u ELSE Append(u, x)

\* A widget that offers only the first distinct value of the column.
OptionsFirstOnly(frame, c) ==
    LET u == unique(Column(frame, c))
    IN  IF u = <<>> THEN {} ELSE {u[1]}

\* The options a multiselect offers: df[c].unique().
Options(frame, c) == Range(unique(Column(frame, c)))

\* st.sidebar.slider("Physical Activity (FAF)", 0, 3)
SliderMin == 0
SliderMax == 3

\* The labels of the page elements, in script order.
GenderWidget == "Gender"
FavcWidget   == "High Calorie Food (FAVC)"
FafWidget    == "Physical Activity (FAF)"
CalcWidget   == "Alcohol (CALC)"
FhWidget     == "Family History"
Chart        == "Obesity by Gender"
Exception    == "exception"

AllElements ==
    <<GenderWidget, FavcWidget, FafWidget, CalcWidget, FhWidget, Chart>>

\* Widget values of a fresh session: nothing selected, slider at its minimum.
DefaultControls ==
    [gender |-> {}, favc |-> {}, faf |-> SliderMin, calc |-> {}, fh |-> {}]

\* -------------------------------------------------------------- row filter

\* Series.isin(values)
isin(v, values) == v \in values

\* The mask with a strict FAF comparison.
MaskStrictFaf(row, w) ==
    /\ (IF w.gender # {} THEN isin(row.Gender, w.gender) ELSE TRUE)
    /\ (IF w.favc # {} THEN isin(row.FAVC, w.favc) ELSE TRUE)
    /\ (IF w.calc # {} THEN isin(row.CALC, w.calc) ELSE TRUE)
    /\ row.FAF > w.faf

\* The mask without the "if selection else True" guards.
MaskNoEmptyGuard(row, w) ==
    /\ isin(row.Gender, w.gender)
    /\ isin(row.FAVC, w.favc)
    /\ isin(row.CALC, w.calc)
    /\ row.FAF >= w.faf

\* The mask with the family-history selection wired in.
MaskWithFamilyHistory(row, w) ==
    /\ (IF w.gender # {} THEN isin(row.Gender, w.gender) ELSE TRUE)
    /\ (IF w.favc # {} THEN isin(row.FAVC, w.favc) ELSE TRUE)
    /\ (IF w.calc # {} THEN isin(row.CALC, w.calc) ELSE TRUE)
    /\ (IF w.fh # {} THEN isin(row.family_history_with_overweight, w.fh)
                     ELSE TRUE)
    /\ row.FAF >= w.faf

\* One row's entry of the boolean mask of app.py:18-21; w.fh is not read.
Mask(row, w) ==
    /\ (IF w.gender # {} THEN isin(row.Gender, w.gender) ELSE TRUE)
    /\ (IF w.favc # {} THEN isin(row.FAVC, w.favc) ELSE TRUE)
    /\ (IF w.calc # {} THEN isin(row.CALC, w.calc) ELSE TRUE)
    /\ row.FAF >= w.faf

Positions(n) == [i \in 1..n |-> i]

\* df[mask] that renumbers the index of the result from 0.
BooleanIndexResetIndex(frame, mask) ==
    LET keep == SelectSeq(Positions(Len(frame.rows)), LAMBDA i : mask[i])
    IN  [columns |-> frame.columns,
         index   |-> [k \in 1..Len(keep) |-> k - 1],
         rows    |-> [k \in 1..Len(keep) |-> frame.rows[keep[k]]]]

\* df[mask]: the rows whose mask entry is True, in order, under their
\* original index labels and with every column.
BooleanIndex(frame, mask) ==
    LET keep == SelectSeq(Positions(Len(frame.rows)), LAMBDA i : mask[i])
    IN  [columns |-> frame.columns,
         index   |-> [k \in 1..Len(keep) |-> frame.index[keep[k]]],
         rows    |-> [k \in 1..Len(keep) |-> frame.rows[keep[k]]]]

\* filtered = df[ ... ]
Filter(frame, w) ==
    BooleanIndex(frame, [i \in 1..Len(frame.rows) |-> Mask(frame.rows[i], w)])

\* ------------------------------------------------------------------- chart

\* px.bar that also rejects a frame without rows.
px_bar_raises_on_empty(frame) ==
    \/ ~({"Gender", "NObeyesdad"} \subseteq frame.columns)
    \/ frame.rows = <<>>

\* px.bar raises ValueError when x or color names no column of the frame.
px_bar_raises(frame) == ~({"Gender", "NObeyesdad"} \subseteq frame.columns)

\* px.bar that puts one point per distinct Gender in each trace.
px_bar_distinct(frame) ==
    LET colors == unique(Column(frame, "NObeyesdad"))
        trace(o) ==
            LET pos == SelectSeq(Positions(Len(frame.rows)),
                                 LAMBDA i : frame.rows[i].NObeyesdad = o)
                xs  == unique([k \in 1..Len(pos) |-> frame.rows[pos[k]].Gender])
            IN  [name |-> o, x |-> xs, y |-> [k \in 1..Len(xs) |-> 1]]
    IN  [k \in 1..Len(colors) |-> trace(colors[k])]

\* px.bar(filtered, x="Gender", color="NObeyesdad"): one trace per distinct
\* NObeyesdad in order of first appearance; no y is given and x is
\* categorical, so every row is one point (x = its Gender, y = 1), and the
\* points of a category are stacked.  A frame without rows gives no trace.
px_bar(frame) ==
    LET colors == unique(Column(frame, "NObeyesdad"))
        trace(o) ==
            LET pos == SelectSeq(Positions(Len(frame.rows)),
                                 LAMBDA i : frame.rows[i].NObeyesdad = o)
            IN  [name |-> o,
                 x    |-> [k \in 1..Len(pos) |-> frame.rows[pos[k]].Gender],
                 y    |-> [k \in 1..Len(pos) |-> 1]]
    IN  [k \in 1..Len(colors) |-> trace(colors[k])]

\* ------------------------------------------------------------- one script run

Result(st, o, d, f, g) ==
    [status |-> st, out |-> o, df |-> d, filtered |-> f, fig1 |-> g]

\* The run stops at the raising line: `shown` is already on the page.
Abort(shown, d) == Result("error", Append(shown, Exception), d, NoFrame, <<>>)

\* app.py top to bottom with widget values w.
RunScript(file, w) ==
    IF read_csv_raises(file) THEN Abort(<<>>, NoFrame)                 \* line 5
    ELSE IF "Age" \notin file.header THEN Abort(<<>>, NoFrame)         \* line 6
    ELSE LET d == AddAgeBand(read_csv(file)) IN
    IF "Gender" \notin d.columns THEN Abort(<<>>, d)                   \* line 10
    ELSE IF "FAVC" \notin d.columns
         THEN Abort(SubSeq(AllElements, 1, 1), d)                      \* line 11
    ELSE IF "CALC" \notin d.columns
         THEN Abort(SubSeq(AllElements, 1, 3), d)                      \* line 13
    ELSE IF "family_history_with_overweight" \notin d.columns
         THEN Abort(SubSeq(AllElements, 1, 4), d)                      \* line 14
    ELSE IF "FAF" \notin d.columns
         THEN Abort(SubSeq(AllElements, 1, 5), d)                      \* line 21
    ELSE LET f == Filter(d, w) IN
    IF px_bar_raises(f)
    THEN Result("error", Append(SubSeq(AllElements, 1, 5), Exception),
                d, f, <<>>)                                            \* line 25
    ELSE Result("ok", AllElements, d, f, px_bar(f))                    \* line 26

\* ------------------------------------------------------------ the session

Init ==
    /\ csv \in CsvFiles
    /\ ws = DefaultControls
    /\ LET r == RunScript(csv, DefaultControls)
       IN  /\ df = r.df
           /\ filtered = r.filtered
           /\ fig1 = r.fig1
           /\ out = r.out
           /\ status = r.status
           /\ first = r
           /\ narrowed = (Len(r.filtered.rows) < Len(r.df.rows))

\* A re-run that writes its filtered view over the table it loads from.
RenderInPlace(w) ==
    /\ ws' = w
    /\ LET r == RunScript(csv, w)
       IN  /\ df' = r.df
           /\ filtered' = r.filtered
           /\ fig1' = r.fig1
           /\ out' = r.out
           /\ status' = r.status
           /\ csv' = IF r.status = "ok"
                     THEN [csv EXCEPT !.rows =
                             [i \in 1..Len(r.filtered.rows) |->
                                [k \in Columns |-> r.filtered.rows[i][k]]]]
                     ELSE csv
           /\ narrowed' = (narrowed \/ Len(r.filtered.rows) < Len(r.df.rows))
    /\ UNCHANGED first

\* The framework stores the new widget values and runs the script again.
Render(w) ==
    /\ ws' = w
    /\ LET r == RunScript(csv, w)
       IN  /\ df' = r.df
           /\ filtered' = r.filtered
           /\ fig1' = r.fig1
           /\ out' = r.out
           /\ status' = r.status
           /\ narrowed' = (narrowed \/ Len(r.filtered.rows) < Len(r.df.rows))
    /\ UNCHANGED <<csv, first>>

Shown(element) == element \in Range(out)

SetGender ==
    /\ Shown(GenderWidget)
    /\ \E sel \in SUBSET Options(df, "Gender") :
          sel # ws.gender /\ Render([ws EXCEPT !.gender = sel])

SetFavc ==
    /\ Shown(FavcWidget)
    /\ \E sel \in SUBSET Options(df, "FAVC") :
          sel # ws.favc /\ Render([ws EXCEPT !.favc = sel])

SetFaf ==
    /\ Shown(FafWidget)
    /\ \E v \in SliderMin..SliderMax :
          v # ws.faf /\ Render([ws EXCEPT !.faf = v])

SetCalc ==
    /\ Shown(CalcWidget)
    /\ \E sel \in SUBSET Options(df, "CALC") :
          sel # ws.calc /\ Render([ws EXCEPT !.calc = sel])

SetFh ==
    /\ Shown(FhWidget)
    /\ \E sel \in SUBSET Options(df, "family_history_with_overweight") :
          sel # ws.fh /\ Render([ws EXCEPT !.fh = sel])

\* The user asks for a re-run without touching a widget.
Rerun == Render(ws)

Next == SetGender \/ SetFavc \/ SetFaf \/ SetCalc \/ SetFh \/ Rerun

Spec == Init /\ [][Next]_vars

\* ================================================================== claims

\* The last run reached the filter of app.py:17-22 and evaluated it.
FilterRan == Shown(FhWidget) /\ "FAF" \in df.columns

\* The index labels of the frame's rows that satisfy P.
LabelsWhere(frame, P(_)) ==
    { frame.index[i] : i \in { j \in 1..Len(frame.rows) : P(frame.rows[j]) } }

IndexSet(frame) == Range(frame.index)

\* The row of df under index label l (the RangeIndex starts at 0).
DfRow(l) == df.rows[l + 1]

\* C1: the filtered view holds exactly the rows r of the full table with
\* (no gender selected or r.Gender selected) and (no FAVC selected or r.FAVC
\* selected) and (no CALC selected or r.CALC selected) and r.FAF >= slider
\* value, each of them once; no other row is kept, no such row is dropped.
C1_FilterExact ==
    FilterRan =>
        /\ IndexSet(filtered) =
             LabelsWhere(df, LAMBDA r :
                /\ (ws.gender = {} \/ r.Gender \in ws.gender)
                /\ (ws.favc = {} \/ r.FAVC \in ws.favc)
                /\ (ws.calc = {} \/ r.CALC \in ws.calc)
                /\ r.FAF >= ws.faf)
        /\ Len(filtered.rows) = Cardinality(IndexSet(filtered))
        /\ \A k \in 1..Len(filtered.rows) :
              filtered.rows[k] = DfRow(filtered.index[k])

\* The end-to-end scenario: Gender = ["Male"], FAF = 1, the rest empty, keeps
\* rows 1 and 3; row 1 has FAF equal to the slider value.
C1_Witness ==
    /\ csv = GoodFile(ExampleTable)
    /\ ws = [DefaultControls EXCEPT !.gender = {"Male"}, !.faf = 1]
    /\ status = "ok"
    /\ filtered.index = <<0, 2>>
    /\ filtered.rows[1].FAF = ws.faf

\* The bucket table of the specification.
BandOfAge(a) ==
    IF 0 < a /\ a <= 20 THEN "<20"
    ELSE IF 20 < a /\ a <= 25 THEN "20-25"
    ELSE IF 25 < a /\ a <= 30 THEN "26-30"
    ELSE IF 30 < a /\ a <= 40 THEN "31-40"
    ELSE IF 40 < a /\ a <= 100 THEN "41+"
    ELSE NaN

\* C2: every row's AgeBand is the band of its Age under the left-exclusive,
\* right-inclusive buckets (0,20], (20,25], (25,30], (30,40], (40,100], and
\* is missing for an Age <= 0 or > 100; the run does not fail on such an Age.
C2_AgeBand ==
    (csv.exists /\ csv.parses /\ "Age" \in csv.header) =>
        /\ Len(df.rows) = Len(csv.rows)
        /\ "AgeBand" \in df.columns
        /\ \A i \in 1..Len(df.rows) :
              df.rows[i].AgeBand = BandOfAge(df.rows[i].Age)
        /\ \A k \in 1..Len(filtered.rows) :
              filtered.rows[k].AgeBand = BandOfAge(filtered.rows[k].Age)
        /\ (csv.header = Columns => status = "ok")

AgeBandAt(a) ==
    { df.rows[i].AgeBand : i \in { j \in 1..Len(df.rows) : df.rows[j].Age = a } }

\* A table with a respondent at every bucket edge has been loaded.
C2_Witness ==
    /\ csv = GoodFile(EdgeTable)
    /\ status = "ok"
    /\ AgeBandAt(20) = {"<20"}
    /\ AgeBandAt(21) = {"20-25"}
    /\ AgeBandAt(41) = {"41+"}
    /\ AgeBandAt(100) = {"41+"}
    /\ AgeBandAt(0) = {NaN}
    /\ AgeBandAt(101) = {NaN}

\* C3: a run with any other family-history selection, the other four control
\* values being the same, gives the same filtered view and the same chart.
C3_FamilyHistoryIgnored ==
    Shown(FhWidget) =>
        \A sel \in SUBSET Options(df, "family_history_with_overweight") :
            LET r == RunScript(csv, [ws EXCEPT !.fh = sel])
            IN  /\ r.filtered = filtered
                /\ r.fig1 = fig1
                /\ r.status = status

\* Family history "yes" is selected and a "no" respondent is still shown.
C3_Witness ==
    /\ status = "ok"
    /\ ws.fh = {"yes"}
    /\ \E k \in 1..Len(filtered.rows) :
          filtered.rows[k].family_history_with_overweight = "no"

\* C4: an empty Gender, FAVC or CALC selection restricts nothing: the
\* filtered view is then the rows that pass the remaining conditions.
C4_EmptySelectionPassesAll ==
    FilterRan =>
        /\ ws.gender = {} =>
              IndexSet(filtered) =
                LabelsWhere(df, LAMBDA r :
                   /\ (ws.favc = {} \/ r.FAVC \in ws.favc)
                   /\ (ws.calc = {} \/ r.CALC \in ws.calc)
                   /\ r.FAF >= ws.faf)
        /\ ws.favc = {} =>
              IndexSet(filtered) =
                LabelsWhere(df, LAMBDA r :
                   /\ (ws.gender = {} \/ r.Gender \in ws.gender)
                   /\ (ws.calc = {} \/ r.CALC \in ws.calc)
                   /\ r.FAF >= ws.faf)
        /\ ws.calc = {} =>
              IndexSet(filtered) =
                LabelsWhere(df, LAMBDA r :
                   /\ (ws.gender = {} \/ r.Gender \in ws.gender)
                   /\ (ws.favc = {} \/ r.FAVC \in ws.favc)
                   /\ r.FAF >= ws.faf)
        /\ (ws.gender = {} /\ ws.favc = {} /\ ws.calc = {}) =>
              IndexSet(filtered) =
                LabelsWhere(df, LAMBDA r : r.FAF >= ws.faf)
        /\ Len(filtered.rows) = Cardinality(IndexSet(filtered))

\* Gender is empty while FAVC restricts: rows of both genders are shown and
\* some row is filtered away.
C4_Witness ==
    /\ status = "ok"
    /\ ws.gender = {}
    /\ ws.favc # {}
    /\ Cardinality({ filtered.rows[k].Gender : k \in 1..Len(filtered.rows) }) = 2
    /\ Len(filtered.rows) < Len(df.rows)

\* What a run leaves behind.
LastResult == Result(status, out, df, filtered, fig1)

\* C5: no run changes the CSV file; a re-run with unchanged control values
\* gives the same page, view and chart; and whenever the controls are back at
\* their first values the result is that of the session's first run.
C5_StatelessRender ==
    /\ [][ /\ csv' = csv
           /\ (ws' = ws => LastResult' = LastResult) ]_vars
    /\ [](ws = DefaultControls => LastResult = first)

\* The controls are back at their defaults after a run that filtered rows
\* away, and the whole table is shown again.
C5_Witness ==
    /\ narrowed
    /\ ws = DefaultControls
    /\ status = "ok"
    /\ LastResult = first
    /\ Len(filtered.rows) = Len(csv.rows)
    /\ Len(csv.rows) > 1

\* C6: the filtered view has the columns of the full table, AgeBand among
\* them; its rows are rows of the full table, in table order, none twice, with
\* every cell as in the full table; and the full table is the file's rows.
C6_FilteredIsSubset ==
    FilterRan =>
        /\ filtered.columns = df.columns
        /\ "AgeBand" \in filtered.columns
        /\ Len(filtered.index) = Len(filtered.rows)
        /\ \A k \in 1..Len(filtered.rows) :
              /\ filtered.index[k] \in IndexSet(df)
              /\ DOMAIN filtered.rows[k] = filtered.columns
              /\ \A c \in df.columns :
                    filtered.rows[k][c] = DfRow(filtered.index[k])[c]
        /\ \A j, k \in 1..Len(filtered.rows) :
              j < k => filtered.index[j] < filtered.index[k]
        /\ Len(df.rows) = Len(csv.rows)
        /\ \A i \in 1..Len(df.rows) :
              \A c \in csv.header : df.rows[i][c] = csv.rows[i][c]

\* The first row of the table is filtered away and a later one is kept.
C6_Witness ==
    /\ status = "ok"
    /\ Len(filtered.rows) >= 1
    /\ filtered.index[1] > 0

RECURSIVE SumSeq(_)
SumSeq(s) == IF s = <<>> THEN 0 ELSE s[1] + SumSeq(Tail(s))

\* The height of the stack of colour o over category g.
BarHeight(fig, g, o) ==
    SumSeq([k \in 1..Len(fig) |->
              IF fig[k].name = o
              THEN SumSeq([i \in 1..Len(fig[k].x) |->
                             IF fig[k].x[i] = g THEN fig[k].y[i] ELSE 0])
              ELSE 0])

RowsWith(frame, g, o) ==
    { k \in 1..Len(frame.rows) :
        frame.rows[k].Gender = g /\ frame.rows[k].NObeyesdad = o }

\* C7: the bar of colour o over Gender g is as high as the number of filtered
\* rows with that Gender and NObeyesdad; there is one series per NObeyesdad
\* value of the filtered view; no bar stands for a pair without filtered row.
C7_ChartCounts ==
    status = "ok" =>
        /\ \A g \in Options(df, "Gender") : \A o \in Options(df, "NObeyesdad") :
              BarHeight(fig1, g, o) = Cardinality(RowsWith(filtered, g, o))
        /\ { fig1[k].name : k \in 1..Len(fig1) } = Options(filtered, "NObeyesdad")
        /\ Len(fig1) = Cardinality(Options(filtered, "NObeyesdad"))
        /\ \A k \in 1..Len(fig1) :
              /\ Len(fig1[k].x) = Len(fig1[k].y)
              /\ \A i \in 1..Len(fig1[k].x) :
                    RowsWith(filtered, fig1[k].x[i], fig1[k].name) # {}

\* Two filtered rows share Gender and NObeyesdad, and a row is filtered away.
C7_Witness ==
    /\ status = "ok"
    /\ Len(filtered.rows) < Len(df.rows)
    /\ \E g \in Options(df, "Gender") : \E o \in Options(df, "NObeyesdad") :
          BarHeight(fig1, g, o) = 2

\* C8: when the controls select no row of a well-formed table, the run ends
\* without error and shows the five widgets and a chart without bars.
C8_EmptyResultRenders ==
    (csv.exists /\ csv.parses /\ csv.header = Columns /\ filtered.rows = <<>>) =>
        /\ status = "ok"
        /\ out = AllElements
        /\ fig1 = <<>>

\* No respondent meets the Gender and FAVC selections together, though the
\* slider is at its minimum and each selection alone matches someone.
C8_Witness ==
    /\ status = "ok"
    /\ df.rows # <<>>
    /\ filtered.rows = <<>>
    /\ ws.faf = SliderMin
    /\ \E i \in 1..Len(df.rows) : df.rows[i].Gender \in ws.gender
    /\ \E i \in 1..Len(df.rows) : df.rows[i].FAVC \in ws.favc

\* C9: a run either puts all five widgets and the chart on the page or none
\* of them.
C9_AllOrNothing ==
    \/ Range(out) \cap Range(AllElements) = Range(AllElements)
    \/ Range(out) \cap Range(AllElements) = {}

\* C10: with every offered value of a Gender, FAVC or CALC control selected
\* the filtered view is the one of the empty selection; and adding values to
\* a non-empty selection never removes a row.
C10_SelectAllEqualsNone ==
    status = "ok" =>
        /\ ws.gender = Options(df, "Gender") =>
              RunScript(csv, [ws EXCEPT !.gender = {}]).filtered = filtered
        /\ ws.favc = Options(df, "FAVC") =>
              RunScript(csv, [ws EXCEPT !.favc = {}]).filtered = filtered
        /\ ws.calc = Options(df, "CALC") =>
              RunScript(csv, [ws EXCEPT !.calc = {}]).filtered = filtered
        /\ \A sel \in SUBSET Options(df, "Gender") :
              (ws.gender # {} /\ ws.gender \subseteq sel) =>
                 IndexSet(filtered) \subseteq
                   IndexSet(RunScript(csv, [ws EXCEPT !.gender = sel]).filtered)
        /\ \A sel \in SUBSET Options(df, "FAVC") :
              (ws.favc # {} /\ ws.favc \subseteq sel) =>
                 IndexSet(filtered) \subseteq
                   IndexSet(RunScript(csv, [ws EXCEPT !.favc = sel]).filtered)
        /\ \A sel \in SUBSET Options(df, "CALC") :
              (ws.calc # {} /\ ws.calc \subseteq sel) =>
                 IndexSet(filtered) \subseteq
                   IndexSet(RunScript(csv, [ws EXCEPT !.calc = sel]).filtered)

\* Both genders are offered and selected, every row is shown, and selecting
\* one gender alone would show fewer rows than selecting none.
C10_Witness ==
    /\ status = "ok"
    /\ Cardinality(ws.gender) = 2
    /\ ws.gender = Options(df, "Gender")
    /\ Len(filtered.rows) = Len(df.rows)
    /\ \E g \in ws.gender :
          Len(RunScript(csv, [ws EXCEPT !.gender = {g}]).filtered.rows)
            < Len(RunScript(csv, [ws EXCEPT !.gender = {}]).filtered.rows)

====
